---- MODULE Spec2Model ----
(***************************************************************************)
(* State-machine model of csniff/basesniffmodule.c: the vendor commands    *)
(* (get_timer, set_filter, sniff_stop, sniff_start), the sniff loop        *)
(* (process, process_frontline, process_payload, process_lmp, process_dv,  *)
(* process_l2cap, dump_lmp) and the pairing observer (do_pin).             *)
(*                                                                         *)
(* A buffer is a sequence of cells, one per byte.  A multi-byte header     *)
(* field (fp_clock, fp_len) is carried whole by its first cell.  Pointers  *)
(* are 0-based offsets into the buffer; cell i of the C buffer is buf[i+1].*)
(***************************************************************************)
EXTENDS Integers, Sequences, FiniteSets, TLC

VARIABLES
    s,        \* the PyState session
    out,      \* what the last call printed, wrote to the dump, sent and returned, in order
    alive,    \* FALSE once the process was ended by abort(), assert() or err()
    wr,       \* the s_pin_data rows stored by memcpy during the last call
    fr,       \* the process_frontline, process_payload and do_pin calls of the last call
    last,     \* the input of the last call
    acc,      \* the s_pin_data rows stored since the most recent LMP_IN_RAND
    run,      \* the packets fed since the most recent LMP_IN_RAND, while each set a new bit
    rep,      \* a pairing run being fed a second time, and the line it printed first
    mirror,   \* the session of a second observer, fed the role-swapped packets
    mout,     \* what the last call of the second observer printed
    sent,     \* the hci_send_req() requests issued so far, in order
    nread     \* the number of packets read so far

vars == <<s, out, alive, wr, fr, last, acc, run, rep, mirror, mout, sent, nread>>

----------------------------------------------------------------------------
(* Constants of basesniffmodule.h and <bluetooth/hci.h> *)

LMP_IN_RAND == 8
LMP_COMB_KEY == 9
LMP_AU_RAND == 11
LMP_SRES == 12
LMP_TID_MASK == 1
LMP_OP1_SHIFT == 1
LLID_LMP == 3
TYPE_DV == 8
HLEN_BC2 == 6
HLEN_BC4 == 8
MAX_TYPES == 4
FP_TYPE_SHIFT == 3
FP_TYPE_MASK == 15
FP_ADDR_MASK == 7
FP_LEN_SHIFT == 3
FP_LEN_LLID_SHIFT == 0
FP_LEN_LLID_MASK == 3
FP_SLAVE_MASK == 2
FP_CLOCK_MASK == 134217727
FP_STATUS_SHIFT == 28
HCI_ACLDATA_PKT == 2
HCI_EVENT_PKT == 4
EVT_VENDOR == 255
SIZEOF_ACL == 4
SIZEOF_EVT == 2

(* Constants of basesniffmodule.c *)
GOT_IN_RAND == 2
GOT_COMB1 == 4
GOT_COMB2 == 8
GOT_AU_RAND1 == 16
GOT_SRES1 == 32
GOT_AU_RAND2 == 64
GOT_SRES2 == 128
PIN_ARMED == 1
PIN_ALL == 255
CSR_LMP_LEN == 20
CSR_LMP_MAX == 17
CSR_CHANNEL == 20
PIN_ROWS == 7
PIN_LONG == 16
PIN_SHORT == 4

----------------------------------------------------------------------------
(* C integer helpers *)

Pow2(n) == 2 ^ n

Shr(x, n) == x \div Pow2(n)

\* x & m for a mask m = 2^k - 1
AndLow(x, m) == x % (m + 1)

\* x & b for a single bit b = 2^k
Bit(x, b) == (x \div b) % 2 = 1

\* x |= b for a single bit b
SetBit(x, b) == IF Bit(x, b) THEN x ELSE x + b

\* memcpy(dst, src, len) into a row at least len long: the first len cells are
\* replaced, the rest of the row keeps what it held
memcpy(dst, src) == src \o SubSeq(dst, Len(src) + 1, Len(dst))

Zeros(n) == [i \in 1..n |-> 0]

\* the len cells of buf that start at offset off
Slice(buf, off, len) == SubSeq(buf, off + 1, off + len)

----------------------------------------------------------------------------
(* A call context c = [s, out, alive, wr, fr]: the session, the output      *)
(* produced so far by the call, whether the process still runs, the          *)
(* s_pin_data rows stored so far by the call, and the calls made so far to   *)
(* process_frontline (with its pointer and len), to process_payload (with    *)
(* its buf) and to do_pin (with its op and buf).                             *)

Ctx(sess) == [s |-> sess, out |-> <<>>, alive |-> TRUE, wr |-> <<>>, fr |-> <<>>]

\* abort(), a failed assert() or err(): the process ends here
Kill(c, why) == [c EXCEPT !.alive = FALSE, !.out = Append(@, [k |-> "abort", why |-> why])]

Emit(c, e) == [c EXCEPT !.out = Append(@, e)]

\* write(s->s_dump, ...) of one part of a dump record
DumpWrite(c, part, val) == Emit(c, [k |-> "dump", part |-> part, val |-> val])

----------------------------------------------------------------------------
(* Pairing observer: do_pin *)

\* memcpy(s->s_pin_data[row], buf, len); s->s_pin |= bit;
PinStore(c, row, buf, bit) ==
    [c EXCEPT !.s.s_pin_data[row] = memcpy(@, buf),
              !.s.s_pin = SetBit(@, bit),
              !.wr = Append(@, row)]

\* the printf()s of a complete transcript
PinLine(sess) ==
    [k |-> "Go",
     first |-> IF sess.s_pin_master # 0 THEN "master" ELSE "slave",
     h |-> [i \in 0..(PIN_ROWS - 1) |->
              SubSeq(sess.s_pin_data[i], 1, IF i >= 5 THEN PIN_SHORT ELSE PIN_LONG)]]

\* the cases of the switch of do_pin: ret is TRUE where the C code returns
\* from inside the switch; same is s->s_master == s->s_pin_master, rowPm and
\* rowOther are the rows that take the SRES of either side
PinCases(c, op, buf, same, rowPm, rowOther) ==
    LET sess == c.s
    IN  CASE op = LMP_IN_RAND ->
               [ret |-> FALSE,
                c |-> [c EXCEPT !.s.s_pin = SetBit(PIN_ARMED, GOT_IN_RAND),
                                !.s.s_pin_master = sess.s_master,
                                !.s.s_pin_data[0] = memcpy(@, buf),
                                !.wr = Append(@, 0)]]
          [] op = LMP_COMB_KEY ->
               IF ~Bit(sess.s_pin, GOT_IN_RAND) THEN [ret |-> TRUE, c |-> c]
               ELSE IF same
                    THEN [ret |-> FALSE, c |-> PinStore(c, 1, buf, GOT_COMB1)]
                    ELSE [ret |-> FALSE, c |-> PinStore(c, 2, buf, GOT_COMB2)]
          [] op = LMP_AU_RAND ->
               IF ~Bit(sess.s_pin, GOT_COMB1) \/ ~Bit(sess.s_pin, GOT_COMB2)
               THEN [ret |-> TRUE, c |-> c]
               ELSE IF same
                    THEN [ret |-> FALSE, c |-> PinStore(c, 3, buf, GOT_AU_RAND1)]
                    ELSE [ret |-> FALSE, c |-> PinStore(c, 4, buf, GOT_AU_RAND2)]
          [] op = LMP_SRES ->
               IF ~same
               THEN IF ~Bit(sess.s_pin, GOT_AU_RAND1) THEN [ret |-> TRUE, c |-> c]
                    ELSE [ret |-> FALSE, c |-> PinStore(c, rowOther, buf, GOT_SRES1)]
               ELSE IF ~Bit(sess.s_pin, GOT_AU_RAND2) THEN [ret |-> TRUE, c |-> c]
                    ELSE [ret |-> FALSE, c |-> PinStore(c, rowPm, buf, GOT_SRES2)]
          [] OTHER -> [ret |-> TRUE, c |-> c]

\* a switch that tells the side by the role alone, not by who sent IN_RAND
PinSwitchByRole(c, op, buf) ==
    PinCases(c, op, buf, c.s.s_master # 0, 5, 6)

\* a switch that stores the two SRES rows the other way round
PinSwitchSresRows(c, op, buf) ==
    PinCases(c, op, buf, c.s.s_master = c.s.s_pin_master, 6, 5)

\* a switch that takes LMP_IN_RAND only while no transcript has begun
PinSwitchInRandOnce(c, op, buf) ==
    IF op = LMP_IN_RAND /\ Bit(c.s.s_pin, GOT_IN_RAND) THEN [ret |-> TRUE, c |-> c]
    ELSE PinCases(c, op, buf, c.s.s_master = c.s.s_pin_master, 5, 6)

\* a switch that stores an LMP_SRES whether or not the AU_RAND before it is in
PinSwitchSresAnytime(c, op, buf) ==
    IF op = LMP_SRES
    THEN [ret |-> FALSE,
          c |-> IF c.s.s_master # c.s.s_pin_master
                THEN PinStore(c, 6, buf, GOT_SRES1)
                ELSE PinStore(c, 5, buf, GOT_SRES2)]
    ELSE PinCases(c, op, buf, c.s.s_master = c.s.s_pin_master, 5, 6)

\* a switch that stores an LMP_AU_RAND as soon as one LMP_COMB_KEY is in
PinSwitchAuRandEarly(c, op, buf) ==
    IF op = LMP_AU_RAND /\ (Bit(c.s.s_pin, GOT_COMB1) \/ Bit(c.s.s_pin, GOT_COMB2))
    THEN [ret |-> FALSE,
          c |-> IF c.s.s_master = c.s.s_pin_master
                THEN PinStore(c, 3, buf, GOT_AU_RAND1)
                ELSE PinStore(c, 4, buf, GOT_AU_RAND2)]
    ELSE PinCases(c, op, buf, c.s.s_master = c.s.s_pin_master, 5, 6)

\* a switch whose LMP_IN_RAND keeps the bits that are already in
PinSwitchInRandKeeps(c, op, buf) ==
    IF op = LMP_IN_RAND
    THEN [ret |-> FALSE,
          c |-> [PinStore(c, 0, buf, GOT_IN_RAND) EXCEPT !.s.s_pin_master = c.s.s_master]]
    ELSE PinCases(c, op, buf, c.s.s_master = c.s.s_pin_master, 5, 6)

\* the switch of do_pin
PinSwitch(c, op, buf) ==
    PinCases(c, op, buf, c.s.s_master = c.s.s_pin_master, 5, 6)

\* a tail that prints the line as soon as the SRES of pm is in
PinFlushEarly(c) ==
    IF ~Bit(c.s.s_pin, GOT_SRES2) THEN c
    ELSE [Emit(c, PinLine(c.s)) EXCEPT !.s.s_pin = PIN_ARMED]

\* a tail that clears s_pin after the line and does not re-arm it
PinFlushDisarm(c) ==
    IF c.s.s_pin # PIN_ALL THEN c
    ELSE [Emit(c, PinLine(c.s)) EXCEPT !.s.s_pin = 0]

\* the tail of do_pin: print the transcript once s_pin is 0xFF, then s_pin = 1
PinFlush(c) ==
    IF c.s.s_pin # PIN_ALL THEN c
    ELSE [Emit(c, PinLine(c.s)) EXCEPT !.s.s_pin = PIN_ARMED]

do_pin(c0, op, buf) ==
    LET c == [c0 EXCEPT !.fr = Append(@, [fn |-> "do_pin", buf |-> <<op, buf>>])]
        r == PinSwitch(c, op, buf)
    IN  IF r.ret THEN r.c ELSE PinFlush(r.c)

----------------------------------------------------------------------------
(* Dump writers and payload decoders *)

\* a CSRized LMP packet with the two direction values exchanged
CsrLmpSwapped(sess, buf) ==
    <<CSR_CHANNEL, IF sess.s_master # 0 THEN 15 ELSE 16>>
        \o memcpy(Zeros(CSR_LMP_MAX), buf) \o <<0>>

\* the CSRized LMP packet: channel, direction, 17 payload cells, handle
CsrLmp(sess, buf) ==
    <<CSR_CHANNEL, IF sess.s_master # 0 THEN 16 ELSE 15>>
        \o memcpy(Zeros(CSR_LMP_MAX), buf) \o <<0>>

\* a dump_lmp that writes the record headers before it looks at the length
dump_lmpCheckLate(c, buf) ==
    LET totlen == 1 + SIZEOF_EVT + CSR_LMP_LEN
        c1 == DumpWrite(c, "hdr", [len |-> totlen, in |-> 1, ts_sec |-> 0, ts_usec |-> 0])
        c2 == DumpWrite(c1, "type", HCI_EVENT_PKT)
        c3 == DumpWrite(c2, "evt", [evt |-> EVT_VENDOR, plen |-> CSR_LMP_LEN])
    IN  IF Len(buf) > CSR_LMP_MAX THEN Kill(c3, "assert len <= 17")
        ELSE DumpWrite(c3, "csr_lmp", CsrLmp(c.s, buf))

dump_lmp(c, buf) ==
    IF Len(buf) > CSR_LMP_MAX THEN Kill(c, "assert len <= 17")
    ELSE LET totlen == 1 + SIZEOF_EVT + CSR_LMP_LEN
             c1 == DumpWrite(c, "hdr", [len |-> totlen, in |-> 1, ts_sec |-> 0, ts_usec |-> 0])
             c2 == DumpWrite(c1, "type", HCI_EVENT_PKT)
             c3 == DumpWrite(c2, "evt", [evt |-> EVT_VENDOR, plen |-> CSR_LMP_LEN])
         IN  DumpWrite(c3, "csr_lmp", CsrLmp(c.s, buf))

\* acl_handle_pack(h, f) of <bluetooth/hci.h>
acl_handle_pack(h, f) == (h % 4096) + (f * 4096)

process_l2cap(c, buf) ==
    LET len == Len(buf)
        totlen == 1 + SIZEOF_ACL + len
        c0 == Emit(c, [k |-> "L2CAP", data |-> buf])
    IN  IF c.s.s_dump = -1 THEN c0
        ELSE LET c1 == DumpWrite(c0, "hdr", [len |-> totlen, in |-> 1, ts_sec |-> 0, ts_usec |-> 0])
                 c2 == DumpWrite(c1, "type", HCI_ACLDATA_PKT)
                 c3 == DumpWrite(c2, "acl", [dlen |-> len, handle |-> acl_handle_pack(0, c.s.s_llid)])
             IN  DumpWrite(c3, "data", buf)

\* a process_lmp that parses and feeds do_pin first and dumps last
process_lmpDumpLast(c, buf) ==
    LET byte0 == buf[1]
        tid == AndLow(byte0, LMP_TID_MASK)
        op1 == Shr(byte0, LMP_OP1_SHIFT)
        ext == op1 >= 124 /\ op1 <= 127
        len == Len(buf) - (IF ext THEN 2 ELSE 1)
    IN  IF len < 0 THEN Kill(c, "assert len >= 0")
        ELSE LET op2 == IF ext THEN buf[2] ELSE -1
                 data == Slice(buf, Len(buf) - len, len)
                 c2 == Emit(c, [k |-> "LMP", tid |-> tid, op1 |-> op1, op2 |-> op2, data |-> data])
                 c3 == IF c2.s.s_pin # 0 THEN do_pin(c2, op1, data) ELSE c2
             IN  IF c3.s.s_dump # -1 THEN dump_lmp(c3, buf) ELSE c3

\* a process_lmp that shows every PDU to do_pin, armed or not
process_lmpAlwaysPin(c, buf) ==
    LET c1 == IF c.s.s_dump # -1 THEN dump_lmp(c, buf) ELSE c
        byte0 == buf[1]
        tid == AndLow(byte0, LMP_TID_MASK)
        op1 == Shr(byte0, LMP_OP1_SHIFT)
        ext == op1 >= 124 /\ op1 <= 127
        len == Len(buf) - (IF ext THEN 2 ELSE 1)
    IN  IF ~c1.alive THEN c1
        ELSE IF len < 0 THEN Kill(c1, "assert len >= 0")
        ELSE LET op2 == IF ext THEN buf[2] ELSE -1
                 data == Slice(buf, Len(buf) - len, len)
             IN  do_pin(Emit(c1, [k |-> "LMP", tid |-> tid, op1 |-> op1, op2 |-> op2,
                                  data |-> data]), op1, data)

process_lmp(c, buf) ==
    LET c1 == IF c.s.s_dump # -1 THEN dump_lmp(c, buf) ELSE c
        byte0 == buf[1]
        tid == AndLow(byte0, LMP_TID_MASK)
        op1 == Shr(byte0, LMP_OP1_SHIFT)
        ext == op1 >= 124 /\ op1 <= 127
        len == Len(buf) - (IF ext THEN 2 ELSE 1)
    IN  IF ~c1.alive THEN c1
        ELSE IF len < 0 THEN Kill(c1, "assert len >= 0")
        ELSE LET op2 == IF ext THEN buf[2] ELSE -1
                 data == Slice(buf, Len(buf) - len, len)
                 c2 == Emit(c1, [k |-> "LMP", tid |-> tid, op1 |-> op1, op2 |-> op2, data |-> data])
             IN  IF c2.s.s_pin # 0 THEN do_pin(c2, op1, data) ELSE c2

process_dv(c, buf) == Emit(c, [k |-> "DV", data |-> buf])

\* a process_payload that looks at the LLID before the packet type
process_payloadLlidFirst(c0, buf) ==
    LET c == [c0 EXCEPT !.fr = Append(@, [fn |-> "process_payload", buf |-> buf])]
    IN  IF c.s.s_llid = LLID_LMP THEN process_lmp(c, buf)
        ELSE IF c.s.s_type = TYPE_DV THEN process_dv(c, buf)
        ELSE process_l2cap(c, buf)

process_payload(c0, buf) ==
    LET c == [c0 EXCEPT !.fr = Append(@, [fn |-> "process_payload", buf |-> buf])]
    IN  IF c.s.s_type = TYPE_DV THEN process_dv(c, buf)
        ELSE IF c.s.s_llid = LLID_LMP THEN process_lmp(c, buf)
        ELSE process_l2cap(c, buf)

----------------------------------------------------------------------------
(* Frontline decoder *)

\* a cell of s_buf; past the bytes ever received the zero-filled object shows
Cell(buf, i) == IF i >= 1 /\ i <= Len(buf) THEN buf[i] ELSE 0

\* struct frontline_packet at offset off
fp_hlen(buf, off) == Cell(buf, off + 1)
fp_chan(buf, off) == Cell(buf, off + 2)
fp_clock(buf, off) == Cell(buf, off + 3)
fp_hdr0(buf, off) == Cell(buf, off + 4)
fp_len(buf, off) == Cell(buf, off + 5)

\* a switch on hlen with no default case
KnownHlenAny(hlen) == TRUE

\* the switch on hlen: the cases that break
KnownHlen(hlen) == hlen \in {HLEN_BC2, HLEN_BC4}

\* a decoder with no ignore-list
IgnoredNever(sess, type) == FALSE

\* the for loop over s->s_ignore
Ignored(sess, type) == \E i \in 1..MAX_TYPES : sess.s_ignore[i] = type

\* s->s_ignore_zero && plen == 0
IgnoredZero(sess, plen) == sess.s_ignore_zero # 0 /\ plen = 0

\* a recursion on buf itself, which decodes the same header again
AppendedNowhere(off, hlen, plen) == off

\* a recursion on start, which leaves the payload in the way
AppendedAtStart(off, hlen, plen) == off + hlen

\* start + plen, where the appended fragment begins (start is buf + hlen)
Appended(off, hlen, plen) == off + hlen + plen

RECURSIVE process_frontline(_, _, _, _)
process_frontline(c0, buf, off, len) ==
    LET c == [c0 EXCEPT !.fr = Append(@, [fn |-> "process_frontline",
                                          buf |-> <<off, len>>])]
        type == AndLow(Shr(fp_hdr0(buf, off), FP_TYPE_SHIFT), FP_TYPE_MASK)
        plen == Shr(fp_len(buf, off), FP_LEN_SHIFT)
        status == AndLow(fp_hdr0(buf, off), FP_ADDR_MASK)
        hlen == fp_hlen(buf, off)
    IN  IF ~KnownHlen(hlen)
        THEN Kill(Emit(c, [k |-> "Unknown header len", hlen |-> hlen]), "abort")
        ELSE IF Ignored(c.s, type) THEN c
        ELSE IF IgnoredZero(c.s, plen) THEN c
        ELSE
          LET c1 == [c EXCEPT
                       !.s.s_llid = AndLow(Shr(fp_len(buf, off), FP_LEN_LLID_SHIFT),
                                           FP_LEN_LLID_MASK),
                       !.s.s_master = IF Bit(fp_clock(buf, off), FP_SLAVE_MASK) THEN 0 ELSE 1,
                       !.s.s_type = type]
              c2 == Emit(c1, [k |-> "HL", hlen |-> hlen, chan |-> fp_chan(buf, off),
                              master |-> c1.s.s_master,
                              clk |-> AndLow(fp_clock(buf, off), FP_CLOCK_MASK),
                              status |-> Shr(fp_clock(buf, off), FP_STATUS_SHIFT),
                              hdr0 |-> fp_hdr0(buf, off), type |-> type,
                              addr |-> status, llid |-> c1.s.s_llid, plen |-> plen])
              len1 == len - hlen
          IN  IF len1 < 0 THEN Kill(c2, "assert len >= 0")
              ELSE IF len1 < plen THEN Kill(c2, "assert len >= plen")
              ELSE
                LET c3 == IF plen # 0
                          THEN process_payload(c2, Slice(buf, off + hlen, plen))
                          ELSE c2
                    len2 == len1 - plen
                IN  IF ~c3.alive THEN c3
                    ELSE IF len2 # 0
                    THEN process_frontline(c3, buf, Appended(off, hlen, plen), len2)
                    ELSE c3

\* process(state, s_buf, s_len): buf[1] is the packet type, the ACL header
\* follows (its dlen carried by cell 4), then the frontline fragments
acl_dlen(buf) == Cell(buf, 4)

\* a process() that logs a packet of another type and decodes it all the same
processAnyType(c, buf, len) ==
    LET c1 == IF Cell(buf, 1) # HCI_ACLDATA_PKT
              THEN Emit(c, [k |-> "Unknown type", type |-> Cell(buf, 1)])
              ELSE c
    IN  process_frontline(c1, buf, 1 + SIZEOF_ACL, acl_dlen(buf))

\* process()
process(c, buf, len) ==
    IF Cell(buf, 1) # HCI_ACLDATA_PKT
    THEN Emit(c, [k |-> "Unknown type", type |-> Cell(buf, 1)])
    ELSE IF len < SIZEOF_ACL + 1 \/ acl_dlen(buf) # len - SIZEOF_ACL - 1
    THEN Kill(c, "assert acl->dlen")
    ELSE process_frontline(c, buf, 1 + SIZEOF_ACL, acl_dlen(buf))

----------------------------------------------------------------------------
(* Bounds of the model *)

\* body bytes of the LMP packets fed to the observer are 1..MaxByte
MaxByte == 2

\* packets read by one pairing session
MaxPackets == 7

\* fragments appended in one received packet
MaxFrags == 3

----------------------------------------------------------------------------
(* The session object *)

NoIgnore == [i \in 1..MAX_TYPES |-> -1]

PyState(pin, dump, ignore, ignore_zero) ==
    [s_pin |-> pin, s_pin_master |-> 0,
     s_pin_data |-> [i \in 0..(PIN_ROWS - 1) |-> Zeros(PIN_LONG)],
     s_master |-> 0, s_llid |-> 0, s_type |-> 0,
     s_dump |-> dump, s_ignore |-> ignore, s_ignore_zero |-> ignore_zero,
     s_fd |-> 0]

Range(f) == {f[i] : i \in DOMAIN f}

Lines(o) == SelectSeq(o, LAMBDA e : e.k = "Go")

NoRep == [n |-> 0, seq |-> <<>>, line |-> <<>>]

----------------------------------------------------------------------------
(* Received packets, as the firmware lays them out *)

\* one fragment: the header of hlen cells (the corrupt length byte of a
\* fragment with another hlen sits in a HLEN_BC2 header), then the payload
FragHdr(f) ==
    <<f.hlen, 0, f.slave * FP_SLAVE_MASK, f.type * Pow2(FP_TYPE_SHIFT),
      f.plen * Pow2(FP_LEN_SHIFT) + f.llid * Pow2(FP_LEN_LLID_SHIFT)>>

FragCells(f) ==
    LET size == IF f.hlen \in {HLEN_BC2, HLEN_BC4} THEN f.hlen ELSE HLEN_BC2
    IN  memcpy(Zeros(size), FragHdr(f)) \o f.data

RECURSIVE FragsCells(_)
FragsCells(frags) ==
    IF frags = <<>> THEN <<>> ELSE FragCells(Head(frags)) \o FragsCells(Tail(frags))

\* the cells read() stored in s_buf: type byte, ACL header (handle, dlen), data
PktBuf(pkt) ==
    LET data == FragsCells(pkt.frags)
    IN  <<pkt.ptype, 0, 0, Len(data) + pkt.dlen_off, 0>> \o data \o pkt.stale

\* the count read() returned: the cells of pkt.stale are what s_buf still
\* holds, past the bytes read, of an earlier and longer packet
PktLen(pkt) == 1 + SIZEOF_ACL + Len(FragsCells(pkt.frags))

\* an LMP fragment sent by the master (master = 1) or the slave (master = 0)
LmpFrag(master, op, body) ==
    [hlen |-> HLEN_BC2, type |-> 3, llid |-> LLID_LMP, slave |-> 1 - master,
     plen |-> 1 + Len(body), data |-> <<op * Pow2(LMP_OP1_SHIFT)>> \o body]

AclPkt(frags) ==
    [ptype |-> HCI_ACLDATA_PKT, frags |-> frags, dlen_off |-> 0, stale |-> <<>>]

----------------------------------------------------------------------------
(* One iteration of the loop of basesniff_sniff: read() a packet, process it *)

RECURSIVE AccFold(_, _)
AccFold(a, rows) ==
    IF rows = <<>> THEN a
    ELSE AccFold(IF Head(rows) = 0 THEN {0} ELSE a \cup {Head(rows)}, Tail(rows))

\* the packets since the most recent LMP_IN_RAND, kept while each one set a
\* bit of s_pin that was clear
NextRun(pkt, before, after, rows) ==
    IF rows = <<0>> THEN <<pkt>>
    ELSE IF run # <<>> /\ Len(rows) = 1 /\ after.s_pin # before.s_pin
         THEN Append(run, pkt)
         ELSE <<>>

\* the same packet with every fragment sent by the other side
Swapped(pkt) ==
    [pkt EXCEPT !.frags = [i \in DOMAIN pkt.frags |->
                              [pkt.frags[i] EXCEPT !.slave = 1 - @]]]

\* read() stored pkt in s_buf and process() ran on it
Recv(pkt) ==
    \E c \in {process(Ctx(s), PktBuf(pkt), PktLen(pkt))} :
      /\ s' = c.s
      /\ out' = c.out
      /\ alive' = c.alive
      /\ wr' = c.wr
      /\ fr' = c.fr
      /\ last' = pkt

\* what a pairing session records beside: the rows stored and the packets fed
\* since the last LMP_IN_RAND, and the second observer's view
Pairing(pkt) ==
    /\ acc' = AccFold(acc, wr')
    /\ run' = NextRun(pkt, s, s', wr')
    /\ \E m \in {IF mirror = <<>> THEN Ctx(mirror)
                 ELSE process(Ctx(mirror), PktBuf(Swapped(pkt)), PktLen(pkt))} :
         /\ mirror' = m.s
         /\ mout' = m.out

----------------------------------------------------------------------------
(* Pairing sessions: every received packet carries one LMP fragment *)

PinOps == {LMP_IN_RAND, LMP_COMB_KEY, LMP_AU_RAND, LMP_SRES, 10}

\* body length of the pairing PDUs
PduLen(op) == IF op = LMP_SRES THEN PIN_SHORT ELSE PIN_LONG

PinBodies(op) == {[i \in 1..PduLen(op) |-> v] : v \in 1..MaxByte}

PinPackets ==
    {AclPkt(<<LmpFrag(master, op, body)>>) :
        <<master, op, body>> \in
            UNION {{<<m, o, b>> : m \in {0, 1}, b \in PinBodies(o)} : o \in PinOps}}

\* one LMP packet seen on the air
SniffLmp ==
    /\ alive
    /\ rep.n \in {0, PIN_ROWS}
    /\ nread < MaxPackets
    /\ \E pkt \in PinPackets : Recv(pkt) /\ Pairing(pkt)
    /\ rep' = NoRep
    /\ nread' = nread + 1
    /\ UNCHANGED sent

\* the run that just printed a transcript is seen again, packet by packet
SniffAgain ==
    /\ alive
    /\ \/ /\ rep.n = 0
          /\ Len(run) = PIN_ROWS
          /\ Lines(out) # <<>>
          /\ rep' = [n |-> 1, seq |-> run, line |-> Lines(out)]
          /\ Recv(run[1]) /\ Pairing(run[1])
       \/ /\ rep.n \in 1..(PIN_ROWS - 1)
          /\ rep' = [rep EXCEPT !.n = @ + 1]
          /\ Recv(rep.seq[rep.n + 1]) /\ Pairing(rep.seq[rep.n + 1])
    /\ UNCHANGED <<nread, sent>>

PinConfigs == {<<PIN_ARMED, -1>>, <<PIN_ARMED, 3>>, <<0, -1>>}

InitPin ==
    /\ \E cf \in PinConfigs : s = PyState(cf[1], cf[2], NoIgnore, 0)
    /\ mirror = <<>>
    /\ out = <<>>
    /\ mout = <<>>
    /\ alive = TRUE
    /\ wr = <<>>
    /\ fr = <<>>
    /\ last = <<>>
    /\ acc = {}
    /\ run = <<>>
    /\ rep = NoRep
    /\ sent = <<>>
    /\ nread = 0

NextPin == SniffLmp \/ SniffAgain

SpecPin == InitPin /\ [][NextPin]_vars

\* the same session beside a second observer that sees every packet with the
\* roles of master and slave exchanged
InitSym ==
    /\ s = PyState(PIN_ARMED, -1, NoIgnore, 0)
    /\ mirror = s
    /\ out = <<>>
    /\ mout = <<>>
    /\ alive = TRUE
    /\ wr = <<>>
    /\ fr = <<>>
    /\ last = <<>>
    /\ acc = {}
    /\ run = <<>>
    /\ rep = NoRep
    /\ sent = <<>>
    /\ nread = 0

NextSym == SniffLmp

SpecSym == InitSym /\ [][NextSym]_vars

----------------------------------------------------------------------------
(* What the packets of a pairing run carried *)

PktOp(pkt) == Shr(pkt.frags[1].data[1], LMP_OP1_SHIFT)
PktMaster(pkt) == 1 - pkt.frags[1].slave
PktBody(pkt) == Tail(pkt.frags[1].data)

\* the run IN_RAND(pm), COMB_KEY(pm), COMB_KEY(other), AU_RAND(pm),
\* AU_RAND(other), SRES(other), SRES(pm), or a prefix of it
S5Ops == <<LMP_IN_RAND, LMP_COMB_KEY, LMP_COMB_KEY, LMP_AU_RAND, LMP_AU_RAND,
           LMP_SRES, LMP_SRES>>
S5ByPm == <<TRUE, TRUE, FALSE, TRUE, FALSE, FALSE, TRUE>>

IsS5(r) ==
    /\ r # <<>>
    /\ \A i \in 1..Len(r) :
         /\ PktOp(r[i]) = S5Ops[i]
         /\ (PktMaster(r[i]) = PktMaster(r[1])) = S5ByPm[i]

AllRows == 0..(PIN_ROWS - 1)

----------------------------------------------------------------------------
(* C1: a "btpincrack Go" line is printed only by a step that completes the   *)
(* transcript: IN_RAND, both COMB_KEYs, both AU_RANDs and both SRESs have    *)
(* each been stored since the most recent IN_RAND; a sequence lacking one of *)
(* the seven never prints.                                                   *)
C1_GoOnlyWhenComplete ==
    Lines(out) # <<>> => (acc = AllRows /\ Len(Lines(out)) = 1 /\ Len(wr) = 1)

C1_Witness == Lines(out) # <<>> /\ acc = AllRows /\ rep.n = 0

(* C2: right after a transcript is printed s_pin is exactly the armed bit,   *)
(* and the same seven packets fed again print the same transcript again.     *)
C2_RearmAndRepeat ==
    /\ Lines(out) # <<>> => s.s_pin = PIN_ARMED
    /\ rep.n = PIN_ROWS => (Lines(out) = rep.line /\ Len(rep.line) = 1)
    /\ rep.n \in 1..(PIN_ROWS - 1) => Lines(out) = <<>>

C2_Witness == rep.n = PIN_ROWS /\ Lines(out) = rep.line /\ s.s_pin = PIN_ARMED

(* C3 as claimed: with the roles of every packet exchanged the transcript    *)
(* names the two sides in the other order and its rows are exchanged in      *)
(* pairs, 1 with 2, 3 with 4, 5 with 6.                                      *)
ExchangeRows(h) ==
    [i \in AllRows |-> IF i = 0 THEN h[0] ELSE IF i % 2 = 1 THEN h[i + 1] ELSE h[i - 1]]

C3_RowsExchanged ==
    Lines(out) # <<>> =>
        /\ Len(Lines(mout)) = 1
        /\ Lines(mout)[1].first # Lines(out)[1].first
        /\ Lines(mout)[1].h = ExchangeRows(Lines(out)[1].h)

(* C3 amended: with the roles of every packet exchanged a transcript is      *)
(* printed at the same packets, it names the two sides in the other order    *)
(* and its seven rows are the same, in the same places.                      *)
C3_RowsKept ==
    (Lines(out) # <<>> \/ Lines(mout) # <<>>) =>
        /\ Len(Lines(out)) = 1
        /\ Len(Lines(mout)) = 1
        /\ Lines(mout)[1].first # Lines(out)[1].first
        /\ Lines(mout)[1].h = Lines(out)[1].h

C3_Witness ==
    /\ Lines(out) # <<>>
    /\ Lines(mout) # <<>>
    /\ Lines(out)[1].h[1] # Lines(out)[1].h[2]
    /\ Lines(mout)[1].first # Lines(out)[1].first

(* C4: the run IN_RAND(pm), COMB_KEY(pm), COMB_KEY(other), AU_RAND(pm),      *)
(* AU_RAND(other), SRES(other), SRES(pm) prints nothing at its first six     *)
(* packets and one line at the seventh, naming master first when pm is the   *)
(* master, with the rows: IN_RAND, COMB_KEY of pm, COMB_KEY of the other,    *)
(* AU_RAND of pm, AU_RAND of the other, SRES of pm, SRES of the other.       *)
S5Line(r) ==
    [k |-> "Go",
     first |-> IF PktMaster(r[1]) = 1 THEN "master" ELSE "slave",
     h |-> [i \in AllRows |->
              PktBody(r[CASE i = 5 -> 7 [] i = 6 -> 6 [] OTHER -> i + 1])]]

C4_S5Transcript ==
    IsS5(run) =>
        IF Len(run) = PIN_ROWS THEN Lines(out) = <<S5Line(run)>>
        ELSE Lines(out) = <<>>

C4_Witness ==
    /\ IsS5(run)
    /\ Len(run) = PIN_ROWS
    /\ Lines(out) = <<S5Line(run)>>
    /\ PktBody(run[6]) # PktBody(run[7])
    /\ PktBody(run[2]) # PktBody(run[3])

----------------------------------------------------------------------------
(* The sniff loop on packets of appended fragments *)

Frag(hlen, type, llid, slave, data) ==
    [hlen |-> hlen, type |-> type, llid |-> llid, slave |-> slave,
     plen |-> Len(data), data |-> data]

\* well-formed fragments: a pairing PDU, L2CAP data behind the long header, a
\* DV packet, an LMP PDU with an extended opcode, an empty fragment, an empty
\* NULL packet and a POLL packet that carries data
InRandFrag == LmpFrag(1, LMP_IN_RAND, [i \in 1..PIN_LONG |-> 1])
L2capFrag == Frag(HLEN_BC4, 3, 2, 1, <<7, 7>>)
DvFrag == Frag(HLEN_BC2, TYPE_DV, LLID_LMP, 0, <<9>>)
ExtFrag == Frag(HLEN_BC2, 3, LLID_LMP, 0, <<124 * Pow2(LMP_OP1_SHIFT), 3, 10, 11>>)
EmptyFrag == Frag(HLEN_BC2, 3, 2, 0, <<>>)
NullFrag == Frag(HLEN_BC2, 0, 0, 1, <<>>)
PollFrag == Frag(HLEN_BC4, 1, 2, 1, <<5>>)

\* an LMP PDU with an extended opcode and nothing behind it, and one of 18
\* bytes
ShortExtFrag == Frag(HLEN_BC2, 3, LLID_LMP, 0, <<124 * Pow2(LMP_OP1_SHIFT)>>)
LongLmpFrag == LmpFrag(0, 10, [i \in 1..CSR_LMP_MAX |-> 2])

\* corrupt fragments: an unknown header length (also on a POLL packet), and a
\* payload length that runs past the end of the packet
BadHlenFrag == Frag(7, 3, 2, 0, <<6>>)
BadHlenPollFrag == Frag(7, 1, 2, 0, <<>>)
OverlongFrag == [Frag(HLEN_BC2, 3, 2, 0, <<4>>) EXCEPT !.plen = 3]

FragSet ==
    {InRandFrag, L2capFrag, DvFrag, ExtFrag, EmptyFrag, NullFrag, PollFrag,
     ShortExtFrag, LongLmpFrag, BadHlenFrag, BadHlenPollFrag, OverlongFrag}

FragSeqs == UNION {[1..n -> FragSet] : n \in 1..MaxFrags}

\* ACL packets of appended fragments, packets of another HCI type, ACL packets
\* whose dlen is off by one, and ACL packets with no data read before what
\* s_buf still held
Packets ==
    {AclPkt(fs) : fs \in FragSeqs}
    \cup {[AclPkt(<<f>>) EXCEPT !.ptype = HCI_EVENT_PKT] : f \in FragSet}
    \cup {[AclPkt(<<f>>) EXCEPT !.dlen_off = d] : f \in FragSet, d \in {-1, 1}}
    \cup {[AclPkt(<<>>) EXCEPT !.stale = FragCells(f)] :
              f \in {BadHlenFrag, PollFrag, L2capFrag}}

\* the sessions: as PyType_GenericNew leaves the object (all zero), and as
\* configured with or without pairing capture and dump, ignore-list and
\* zero-length filter
IgnorePoll == [NoIgnore EXCEPT ![1] = 1]

Sessions ==
    {PyState(0, 0, [i \in 1..MAX_TYPES |-> 0], 0),
     PyState(PIN_ARMED, 3, NoIgnore, 0),
     PyState(0, -1, IgnorePoll, 0),
     PyState(0, -1, NoIgnore, 1),
     PyState(PIN_ARMED, 3, IgnorePoll, 1)}

\* while (1): read() returns a packet and process() decodes it
Sniff ==
    /\ alive
    /\ last = <<>>
    /\ \E pkt \in Packets : Recv(pkt)
    /\ UNCHANGED <<acc, run, rep, mirror, mout, sent, nread>>

\* process() returned: back to the top of the loop, where nothing of the next
\* packet has been seen yet
SniffLoop ==
    /\ alive
    /\ last # <<>>
    /\ last' = <<>>
    /\ out' = <<>>
    /\ wr' = <<>>
    /\ fr' = <<>>
    /\ UNCHANGED <<s, alive, acc, run, rep, mirror, mout, sent, nread>>

\* read() returned -1: err(1, "read()")
SniffReadErr ==
    /\ alive
    /\ last = <<>>
    /\ alive' = FALSE
    /\ out' = <<[k |-> "abort", why |-> "read()"]>>
    /\ UNCHANGED <<s, wr, fr, last, acc, run, rep, mirror, mout, sent, nread>>

Init ==
    /\ s \in Sessions
    /\ mirror = <<>>
    /\ out = <<>>
    /\ mout = <<>>
    /\ alive = TRUE
    /\ wr = <<>>
    /\ fr = <<>>
    /\ last = <<>>
    /\ acc = {}
    /\ run = <<>>
    /\ rep = NoRep
    /\ sent = <<>>
    /\ nread = 0

Next == Sniff \/ SniffLoop \/ SniffReadErr

Spec == Init /\ [][Next]_vars

----------------------------------------------------------------------------
(* The fragments of the last packet read, as the firmware appended them *)

Calls(fn) == SelectSeq(fr, LAMBDA e : e.fn = fn)

RECURSIVE Fragments(_, _, _)
Fragments(buf, off, len) ==
    IF len <= 0 THEN <<>>
    ELSE LET hlen == fp_hlen(buf, off)
             plen == Shr(fp_len(buf, off), FP_LEN_SHIFT)
             fits == hlen \in {HLEN_BC2, HLEN_BC4} /\ hlen + plen <= len
         IN  <<[off |-> off, len |-> len, hlen |-> hlen, plen |-> plen, fits |-> fits,
                type |-> AndLow(Shr(fp_hdr0(buf, off), FP_TYPE_SHIFT), FP_TYPE_MASK),
                llid |-> AndLow(Shr(fp_len(buf, off), FP_LEN_LLID_SHIFT),
                                FP_LEN_LLID_MASK),
                pay |-> IF fits THEN Slice(buf, off + hlen, plen) ELSE <<>>]>>
             \o (IF fits THEN Fragments(buf, off + hlen + plen, len - hlen - plen)
                 ELSE <<>>)

\* the fragments of an ACL packet whose dlen is right
IsAcl == last # <<>> /\ last.ptype = HCI_ACLDATA_PKT /\ last.dlen_off = 0

Stream ==
    IF IsAcl
    THEN Fragments(PktBuf(last), 1 + SIZEOF_ACL, PktLen(last) - 1 - SIZEOF_ACL)
    ELSE <<>>

ValidStream == Stream # <<>> /\ \A i \in DOMAIN Stream : Stream[i].fits

Filtered(f) ==
    \/ \E i \in 1..MAX_TYPES : s.s_ignore[i] = f.type
    \/ s.s_ignore_zero # 0 /\ f.plen = 0

\* a payload the LMP decoder gives up on: an extended opcode with nothing
\* behind it, or more than 17 bytes to dump
Rejected(f) ==
    /\ f.plen > 0 /\ f.type # TYPE_DV /\ f.llid = LLID_LMP
    /\ \/ f.plen = 1 /\ Shr(f.pay[1], LMP_OP1_SHIFT) \in 124..127
       \/ f.plen > CSR_LMP_MAX /\ s.s_dump # -1

Sum(f) == f.hlen + f.plen

RECURSIVE SumAll(_)
SumAll(fs) == IF fs = <<>> THEN 0 ELSE Sum(Head(fs)) + SumAll(Tail(fs))

\* one decode step per fragment, each where the one before ended, every
\* non-empty payload dispatched as it lies in its fragment, and the whole
\* input covered
Decomposed ==
    /\ Calls("process_frontline")
         = [i \in DOMAIN Stream |-> [fn |-> "process_frontline",
                                     buf |-> <<Stream[i].off, Stream[i].len>>]]
    /\ \A i \in DOMAIN Stream \ {1} :
         Stream[i].off = Stream[i - 1].off + Sum(Stream[i - 1])
    /\ Calls("process_payload")
         = [i \in DOMAIN SelectSeq(Stream, LAMBDA f : f.plen > 0) |->
              [fn |-> "process_payload",
               buf |-> SelectSeq(Stream, LAMBDA f : f.plen > 0)[i].pay]]
    /\ SumAll(Stream) = PktLen(last) - 1 - SIZEOF_ACL

(* C6 as claimed: a valid frontline stream with no filtered fragment is      *)
(* decoded in exactly one step per fragment, the fragments visited are       *)
(* contiguous, every dispatched payload is the slice [hlen, hlen + plen) of  *)
(* its fragment and the lengths sum up to the input length.                  *)
C6_Decomposed ==
    (ValidStream /\ \A i \in DOMAIN Stream : ~Filtered(Stream[i])) => Decomposed

(* C6 amended: the same, for the streams none of whose payloads the LMP      *)
(* decoder gives up on.                                                      *)
C6_DecomposedUnlessRejected ==
    (/\ ValidStream
     /\ \A i \in DOMAIN Stream : ~Filtered(Stream[i]) /\ ~Rejected(Stream[i]))
    => Decomposed /\ alive

C6_Witness ==
    /\ ValidStream
    /\ \A i \in DOMAIN Stream : ~Filtered(Stream[i]) /\ ~Rejected(Stream[i])
    /\ Len(Stream) = MaxFrags
    /\ \E i, j \in DOMAIN Stream :
         /\ Stream[i].hlen = HLEN_BC2 /\ Stream[j].hlen = HLEN_BC4
         /\ Stream[i].plen > 0 /\ Stream[j].plen > 0
    /\ Len(Calls("process_frontline")) = MaxFrags

BadHlen(f) == f.hlen \notin {HLEN_BC2, HLEN_BC4}

IgnoreMatch(f) == \E i \in 1..MAX_TYPES : s.s_ignore[i] = f.type

NonEmpty(fs) == SelectSeq(fs, LAMBDA f : f.plen > 0)

\* the process_payload calls that dispatch the non-empty payloads of fs
Dispatches(fs) ==
    [i \in DOMAIN NonEmpty(fs) |-> [fn |-> "process_payload", buf |-> NonEmpty(fs)[i].pay]]

Logged == SelectSeq(out, LAMBDA e : e.k = "HL")

(* C7: with the zero-length filter on and no ignore-list match, decoding a   *)
(* valid stream dispatches once every fragment with plen > 0, wherever the   *)
(* empty fragments lie, and never an empty one (stated for the streams none  *)
(* of whose payloads the LMP decoder gives up on).                           *)
C7_DispatchAllNonEmpty ==
    (/\ ValidStream
     /\ s.s_ignore_zero # 0
     /\ \A i \in DOMAIN Stream : ~IgnoreMatch(Stream[i]) /\ ~Rejected(Stream[i]))
    => Calls("process_payload") = Dispatches(Stream)

\* fragment k is one the decoder comes to: those before it fit, pass the
\* filters and are taken by their payload decoder
Reached(k) ==
    /\ k \in DOMAIN Stream
    /\ \A i \in 1..(k - 1) :
         Stream[i].fits /\ ~Filtered(Stream[i]) /\ ~Rejected(Stream[i])

\* nothing of the fragments from k on is logged, dispatched, dumped or shown
\* to do_pin: all of it comes of the k - 1 fragments before
OnlyBefore(k) ==
    /\ Len(Calls("process_frontline")) = k
    /\ Len(Logged) = k - 1
    /\ \A i \in 1..(k - 1) : Logged[i].plen = Stream[i].plen
    /\ Calls("process_payload") = Dispatches(SubSeq(Stream, 1, k - 1))
    /\ \A i \in DOMAIN out :
         out[i].k \in {"dump", "Go", "LMP", "L2CAP", "DV"} =>
           \E j \in 1..(i - 1) : out[j].k = "HL"
    /\ k = 1 => wr = <<>>

(* C8: when the decoder comes to a fragment whose type is in s_ignore, that  *)
(* fragment and every fragment appended after it are skipped (not logged,    *)
(* not dispatched, not dumped, not shown to do_pin), the fragments before it *)
(* are decoded and the loop goes on to the next packet.                      *)
C8_IgnoredSkipsRest ==
    \A k \in DOMAIN Stream :
        (Reached(k) /\ ~BadHlen(Stream[k]) /\ IgnoreMatch(Stream[k]))
        => OnlyBefore(k) /\ alive

C8_Witness ==
    /\ Len(Stream) = 3
    /\ Reached(2) /\ ~BadHlen(Stream[2]) /\ IgnoreMatch(Stream[2])
    /\ Stream[1].plen > 0 /\ Stream[2].plen > 0 /\ Stream[3].plen > 0
    /\ Len(Logged) = 1
    /\ alive

(* C9: a packet whose first byte is not HCI_ACLDATA_PKT is logged and        *)
(* dropped: no field of the session changes, nothing is dumped, decoded or   *)
(* shown to do_pin, and the loop goes on.                                    *)
C9_UnknownTypeDropped ==
    [][(last = <<>> /\ last' # <<>> /\ last'.ptype # HCI_ACLDATA_PKT)
        => /\ s' = s
           /\ out' = <<[k |-> "Unknown type", type |-> last'.ptype]>>
           /\ wr' = <<>>
           /\ fr' = <<>>
           /\ alive']_vars

C9_Witness ==
    /\ last # <<>>
    /\ last.ptype # HCI_ACLDATA_PKT
    /\ s.s_pin = PIN_ARMED + GOT_IN_RAND
    /\ s.s_type = 3
    /\ out = <<[k |-> "Unknown type", type |-> last.ptype]>>
    /\ alive

BadDlen == last # <<>> /\ last.ptype = HCI_ACLDATA_PKT /\ last.dlen_off # 0

(* C10 as claimed: an ACL packet whose dlen is wrong, or a fragment with an  *)
(* unknown header length at any position of the buffer, ends the session.    *)
C10_AnyAnomalyFatal ==
    (BadDlen \/ \E k \in DOMAIN Stream : BadHlen(Stream[k])) => ~alive

(* C10 amended: an ACL packet whose dlen is wrong, or a fragment with an     *)
(* unknown header length that the decoder comes to (no fragment before it in *)
(* the buffer was filtered), ends the session, also when its type is in      *)
(* s_ignore; nothing of that fragment or of a later one is decoded, and no   *)
(* later packet is read.                                                     *)
C10_ReachedAnomalyFatal ==
    /\ BadDlen => ~alive /\ out = <<[k |-> "abort", why |-> "assert acl->dlen"]>>
                         /\ fr = <<>> /\ wr = <<>>
    /\ \A k \in DOMAIN Stream :
         (Reached(k) /\ BadHlen(Stream[k]))
         => /\ ~alive
            /\ OnlyBefore(k)
            /\ SubSeq(out, Len(out) - 1, Len(out))
                 = <<[k |-> "Unknown header len", hlen |-> Stream[k].hlen],
                     [k |-> "abort", why |-> "abort"]>>
    /\ ~alive => last # <<>> \/ out = <<[k |-> "abort", why |-> "read()"]>>

C10_Witness ==
    /\ IsAcl
    /\ Len(last.frags) = 3
    /\ Reached(2) /\ BadHlen(Stream[2]) /\ IgnoreMatch(Stream[2])
    /\ Stream[1].plen > 0
    /\ Len(Logged) = 1
    /\ ~alive

----------------------------------------------------------------------------
(* Vendor commands *)

\* of basesniffmodule.h and <bluetooth/hci.h>
FRAG_FIRST == 64
FRAG_LAST == 128
CHAN_DEBUG == 20
CMD_START == 30
CMD_STOP == 31
CMD_FILTER == 32
CMD_TIMER == 33
OGF_VENDOR_CMD == 63
DP_DATA_LEN == 19
MAC_LEN == 6
RP_LEN == 254

\* the descriptor hci_open_dev() returns for the one device there is
DEV_FD == 5

\* commands that reached hci_send_req() in one session
MaxCmds == 3

\* memset(&pkt, 0, sizeof(pkt)); pkt.dp_type = type;
DbgPacket(type) == [dp_type |-> type, dp_data |-> Zeros(DP_DATA_LEN)]

\* the requests among the output of a call
Requests(o) == SelectSeq(o, LAMBDA e : e.k = "hci_send_req")

\* send_debug: res is what hci_send_req() returns
send_debug(c, dp, rplen, res) ==
    LET cp == <<FRAG_FIRST + FRAG_LAST + CHAN_DEBUG, dp.dp_type>> \o dp.dp_data
        rq == [ogf |-> OGF_VENDOR_CMD, ocf |-> 0, event |-> EVT_VENDOR,
               cparam |-> cp, clen |-> Len(cp), rlen |-> rplen]
        c1 == Emit(c, [k |-> "hci_send_req", fd |-> c.s.s_fd, rq |-> rq])
    IN  IF res < 0 THEN Kill(c1, "hci_send_req()") ELSE c1

send_debug_no_rp(c, dp, res) == send_debug(c, dp, RP_LEN, res)

\* get_dev_fd: -1 stands for the errx() of a device that cannot be opened
get_dev_fd(devname) == IF devname = "hci0" THEN DEV_FD ELSE -1

\* state->s_fd = get_dev_fd(devname)
OpenDev(c, devname) ==
    IF get_dev_fd(devname) < 0 THEN Kill(c, "hci_devid()")
    ELSE [c EXCEPT !.s.s_fd = get_dev_fd(devname)]

Return(c, val) == Emit(c, [k |-> "return", val |-> val])

\* *((unsigned int *)&rp[2]) handed to Py_BuildValue("i", ...)
\* (little-endian; the top byte counts as signed in the int that comes out)
ReplyClock(rp) ==
    rp[3] + 256 * rp[4] + 65536 * rp[5]
        + 16777216 * (IF rp[6] >= 128 THEN rp[6] - 256 ELSE rp[6])

basesniff_get_timer(c, devname, res, rp) ==
    LET c1 == OpenDev(c, devname)
        c2 == send_debug(c1, DbgPacket(CMD_TIMER), RP_LEN, res)
    IN  IF ~c1.alive THEN c1
        ELSE IF ~c2.alive THEN c2
        ELSE Return(c2, ReplyClock(rp))

basesniff_set_filter(c, devname, val, res) ==
    LET c0 == Emit(c, [k |-> "Filter packets", val |-> val])
        c1 == OpenDev(c0, devname)
        pkt == [DbgPacket(CMD_FILTER) EXCEPT !.dp_data[1] = val % 256]
        c2 == send_debug_no_rp(c1, pkt, res)
    IN  IF ~c1.alive THEN c1
        ELSE IF ~c2.alive THEN c2
        ELSE Return(c2, "None")

basesniff_sniff_stop(c, devname, res) ==
    LET c1 == OpenDev(c, devname)
        c2 == send_debug_no_rp(c1, DbgPacket(CMD_STOP), res)
    IN  IF ~c1.alive THEN c1
        ELSE IF ~c2.alive THEN c2
        ELSE Return(c2, "None")

\* Python objects handed in as addresses: a list of ints and other objects
PyInt(v) == [t |-> "int", v |-> v]
PyStr == [t |-> "str", v |-> 0]
PyTuple(items) == [t |-> "tuple", v |-> items]
PyList(items) == [t |-> "list", v |-> items]

\* the items a for loop of sniff_start gets through: all MAC_LEN, or those
\* before the first that is no int
RECURSIVE Peeks(_)
Peeks(items) ==
    IF items = <<>> \/ Head(items).t # "int" THEN <<>>
    ELSE <<Head(items).v % 256>> \o Peeks(Tail(items))

\* basesniff_sniff_start: the packet is filled in and the function returns
basesniff_sniff_start(c, devname, master_list, slave_list) ==
    LET c1 == OpenDev(c, devname)
        m == Peeks(SubSeq(master_list.v, 1, MAC_LEN))
        sl == Peeks(SubSeq(slave_list.v, 1, MAC_LEN))
        \* sp->sp_master_rev[i] = peek; sp->sp_slave_rev[i] = peek; and no
        \* send_debug_no_rp(state, &pkt) follows
        pkt == [DbgPacket(CMD_START) EXCEPT !.dp_data = memcpy(@, m \o sl)]
        c2 == Emit(c1, [k |-> "master", v |-> m])
        c3 == Emit(c2, [k |-> "slave", v |-> sl])
    IN  IF ~c1.alive THEN c1
        ELSE IF master_list.t # "list" \/ slave_list.t # "list" THEN Return(c1, "NULL")
        ELSE IF Len(master_list.v) # MAC_LEN \/ Len(slave_list.v) # MAC_LEN
        THEN Kill(c1, "assert PyList_Size")
        ELSE IF Len(m) < MAC_LEN THEN Return(c2, "NULL")
        ELSE IF Len(sl) < MAC_LEN THEN Return(c3, "NULL")
        ELSE Return(c3, "None")

\* what the callers hand in
Devices == {"hci0", "hci9"}
SendResults == {0, -1}
Replies == {<<0, 0, 120, 86, 52, 18>>, <<0, 0, 0, 0, 0, 128>>}
FilterVals == {0, 1, 257}

Mac(items) == PyList([i \in 1..Len(items) |-> PyInt(items[i])])

MacArgs ==
    {Mac(<<17, 34, 51, 68, 85, 102>>), Mac(<<170, 187, 204, 221, 238, 255>>),
     Mac(<<257, 2, 3, 4, 5, 6>>), Mac(<<1, 2, 3>>),
     PyList(<<PyInt(1), PyInt(2), PyStr, PyInt(4), PyInt(5), PyInt(6)>>),
     PyTuple(<<PyInt(1), PyInt(2), PyInt(3), PyInt(4), PyInt(5), PyInt(6)>>)}

\* one call of a command function returned or ended the process
Called(c, cmd, args) ==
    /\ s' = c.s
    /\ out' = c.out
    /\ alive' = c.alive
    /\ sent' = sent \o Requests(c.out)
    /\ last' = [cmd |-> cmd, args |-> args]
    /\ UNCHANGED <<wr, fr, acc, run, rep, mirror, mout, nread>>

GetTimer ==
    /\ alive
    /\ Len(sent) < MaxCmds
    /\ \E dev \in Devices, res \in SendResults, rp \in Replies :
         Called(basesniff_get_timer(Ctx(s), dev, res, rp), "get_timer", <<dev>>)

SetFilter ==
    /\ alive
    /\ Len(sent) < MaxCmds
    /\ \E dev \in Devices, val \in FilterVals, res \in SendResults :
         Called(basesniff_set_filter(Ctx(s), dev, val, res), "set_filter", <<dev, val>>)

SniffStop ==
    /\ alive
    /\ Len(sent) < MaxCmds
    /\ \E dev \in Devices, res \in SendResults :
         Called(basesniff_sniff_stop(Ctx(s), dev, res), "sniff_stop", <<dev>>)

SniffStart ==
    /\ alive
    /\ \E dev \in Devices, ml \in MacArgs, sl \in MacArgs :
         Called(basesniff_sniff_start(Ctx(s), dev, ml, sl), "sniff_start", <<dev, ml, sl>>)

InitCmd ==
    /\ s = PyState(0, 0, [i \in 1..MAX_TYPES |-> 0], 0)
    /\ mirror = <<>>
    /\ out = <<>>
    /\ mout = <<>>
    /\ alive = TRUE
    /\ wr = <<>>
    /\ fr = <<>>
    /\ last = <<>>
    /\ acc = {}
    /\ run = <<>>
    /\ rep = NoRep
    /\ sent = <<>>
    /\ nread = 0

NextCmd == GetTimer \/ SetFilter \/ SniffStop \/ SniffStart

SpecCmd == InitCmd /\ [][NextCmd]_vars

\* the call just made was sniff_start with two lists of six ints, on a device
\* that opens
StartedOk ==
    /\ last # <<>>
    /\ last.cmd = "sniff_start"
    /\ out # <<>>
    /\ out[Len(out)] = [k |-> "return", val |-> "None"]

(* C5: sniff_start issues exactly one vendor command, of type CMD_START,     *)
(* whose payload holds the master MAC at offsets 0..5 and the slave MAC at   *)
(* offsets 6..11, in the order the caller gave them.                         *)
C5_StartSendsOnce ==
    StartedOk =>
      /\ Len(Requests(out)) = 1
      /\ LET cp == Requests(out)[1].rq.cparam
         IN  /\ cp[2] = CMD_START
             /\ SubSeq(cp, 3, 2 + MAC_LEN)
                  = [i \in 1..MAC_LEN |-> last.args[2].v[i].v % 256]
             /\ SubSeq(cp, 3 + MAC_LEN, 2 + 2 * MAC_LEN)
                  = [i \in 1..MAC_LEN |-> last.args[3].v[i].v % 256]

----------------------------------------------------------------------------
(* Pairing sessions that dump: packets of one or two LMP fragments *)

DumpBody(op, master) == [i \in 1..PduLen(op) |-> 1 + master]

DumpFrag(op, master) == LmpFrag(master, op, DumpBody(op, master))

DumpPackets ==
    {AclPkt(<<DumpFrag(op, m)>>) : op \in PinOps, m \in {0, 1}}
    \cup {AclPkt(<<DumpFrag(op, m), DumpFrag(op, 1 - m)>>) :
              op \in {LMP_COMB_KEY, LMP_AU_RAND, LMP_SRES}, m \in {0, 1}}

SniffDump ==
    /\ alive
    /\ nread < MaxPackets
    /\ \E pkt \in DumpPackets : Recv(pkt) /\ Pairing(pkt)
    /\ rep' = NoRep
    /\ nread' = nread + 1
    /\ UNCHANGED sent

InitDump ==
    /\ s = PyState(PIN_ARMED, 3, NoIgnore, 0)
    /\ mirror = <<>>
    /\ out = <<>>
    /\ mout = <<>>
    /\ alive = TRUE
    /\ wr = <<>>
    /\ fr = <<>>
    /\ last = <<>>
    /\ acc = {}
    /\ run = <<>>
    /\ rep = NoRep
    /\ sent = <<>>
    /\ nread = 0

NextDump == SniffDump

SpecDump == InitDump /\ [][NextDump]_vars

\* the CSR records among the output, and the payload cells of one
CsrRecords == SelectSeq(out, LAMBDA e : e.k = "dump" /\ e.part = "csr_lmp")

RecordPayload(e) == SubSeq(e.val, 3, 2 + CSR_LMP_MAX)

Padded(pay) == pay \o [i \in 1..(CSR_LMP_MAX - Len(pay)) |-> 0]

\* the payloads of the last packet that went to the LMP decoder
LmpFragments ==
    SelectSeq(Stream, LAMBDA f : f.fits /\ f.plen > 0 /\ f.type # TYPE_DV
                                 /\ f.llid = LLID_LMP)

\* the bytes an "LMP" line was parsed from: opcode byte(s), then the body
RawOf(e) ==
    <<e.op1 * Pow2(LMP_OP1_SHIFT) + e.tid>>
        \o (IF e.op2 # -1 THEN <<e.op2>> ELSE <<>>) \o e.data

(* C11: with the dump enabled the CSR record of every LMP payload is written *)
(* before the payload is parsed and shown to do_pin, one record per payload  *)
(* in arrival order; the record of the packet that completes a transcript    *)
(* comes before the transcript line, and it holds the raw payload with its   *)
(* opcode byte.                                                              *)
C11_DumpBeforeParse ==
    /\ [i \in DOMAIN CsrRecords |-> RecordPayload(CsrRecords[i])]
         = [i \in DOMAIN LmpFragments |-> Padded(LmpFragments[i].pay)]
    /\ \A i \in DOMAIN out :
         /\ out[i].k = "LMP" =>
              /\ i > 1
              /\ out[i - 1].k = "dump" /\ out[i - 1].part = "csr_lmp"
              /\ RecordPayload(out[i - 1]) = Padded(RawOf(out[i]))
         /\ out[i].k = "Go" => i > 1 /\ out[i - 1].k = "LMP"

C11_Witness ==
    /\ Len(CsrRecords) = 2
    /\ Lines(out) # <<>>
    /\ out[Len(out)].k = "Go"
    /\ RecordPayload(CsrRecords[1]) # RecordPayload(CsrRecords[2])

----------------------------------------------------------------------------
(* The LMP dump record *)

IsLmp(f) == f.fits /\ f.plen > 0 /\ f.type # TYPE_DV /\ f.llid = LLID_LMP

TooLong(f) == IsLmp(f) /\ f.plen > CSR_LMP_MAX

\* the fragments of the last packet that the decoder went through before it
\* came to fragment j
Passed(j) ==
    \A i \in 1..(j - 1) :
        Stream[i].fits /\ ~Filtered(Stream[i]) /\ ~Rejected(Stream[i])

DumpEvents == SelectSeq(out, LAMBDA e : e.k = "dump")

\* the dump writes that the payloads before fragment j make: four for an LMP
\* or L2CAP payload, none for a DV payload or an empty fragment
WritesBefore(j) ==
    4 * Cardinality({i \in 1..(j - 1) : Stream[i].plen > 0 /\ Stream[i].type # TYPE_DV})

LmpBefore(j) == Cardinality({i \in 1..(j - 1) : IsLmp(Stream[i])})

(* C12: with the dump enabled an LMP payload of more than 17 bytes ends the  *)
(* session before any part of a record for it is written and before the      *)
(* payload is parsed or shown to do_pin.                                     *)
C12_OverlongLmpRejected ==
    \A j \in DOMAIN Stream :
        (s.s_dump # -1 /\ TooLong(Stream[j]) /\ Passed(j)) =>
            /\ ~alive
            /\ out[Len(out)] = [k |-> "abort", why |-> "assert len <= 17"]
            /\ out[Len(out) - 1].k = "HL"
            /\ Len(DumpEvents) = WritesBefore(j)
            /\ Len(SelectSeq(out, LAMBDA e : e.k = "LMP")) = LmpBefore(j)
            /\ Len(Calls("do_pin")) <= LmpBefore(j)

C12_Witness ==
    /\ \E j \in DOMAIN Stream : j > 1 /\ TooLong(Stream[j]) /\ Passed(j) /\ IsLmp(Stream[1])
    /\ s.s_dump # -1
    /\ s.s_pin # 0
    /\ ~alive
    /\ Len(Calls("do_pin")) >= 1

\* 1 when the fragment was sent by the master: the slave bit of its clock word
FragMaster(f) == IF (fp_clock(PktBuf(last), f.off) \div FP_SLAVE_MASK) % 2 = 1 THEN 0 ELSE 1

(* C13: every LMP dump record has a body of 20 bytes: byte 0 is 20, byte 1   *)
(* is 0x10 when the fragment that carries the payload came from the master   *)
(* and 0x0F when it came from the slave, the n <= 17 payload bytes follow,   *)
(* bytes up to 18 are zero and byte 19 is 0; the dump header before it has   *)
(* len = 1 + sizeof(event header) + 20 and direction 'in', and the event     *)
(* header is (EVT_VENDOR, plen 20).                                          *)
C13_RecordLayout ==
    LET lmp == SelectSeq(Stream, IsLmp)
    IN  /\ Len(CsrRecords) <= Len(lmp)
        /\ \A i \in DOMAIN CsrRecords :
             LET r == CsrRecords[i].val
                 f == lmp[i]
             IN  /\ f.plen <= 17
                 /\ Len(r) = 20
                 /\ r[1] = 20
                 /\ r[2] = (IF FragMaster(f) = 1 THEN 16 ELSE 15)
                 /\ \A k \in 1..f.plen : r[2 + k] = f.pay[k]
                 /\ \A k \in (f.plen + 1)..17 : r[2 + k] = 0
                 /\ r[20] = 0
        /\ \A p \in DOMAIN out :
             (out[p].k = "dump" /\ out[p].part = "csr_lmp") =>
                 /\ p > 3
                 /\ out[p - 3] = [k |-> "dump", part |-> "hdr",
                                  val |-> [len |-> 1 + SIZEOF_EVT + 20, in |-> 1,
                                           ts_sec |-> 0, ts_usec |-> 0]]
                 /\ out[p - 2] = [k |-> "dump", part |-> "type", val |-> HCI_EVENT_PKT]
                 /\ out[p - 1] = [k |-> "dump", part |-> "evt",
                                  val |-> [evt |-> EVT_VENDOR, plen |-> 20]]

\* a slave's short payload dumped behind a master's in the same buffer
C13_Witness ==
    /\ Len(CsrRecords) = 2
    /\ CsrRecords[1].val[2] = 16
    /\ CsrRecords[2].val[2] = 15
    /\ Stream[2].plen < CSR_LMP_MAX
    /\ FragMaster(Stream[1]) = 1 /\ FragMaster(Stream[2]) = 0

----------------------------------------------------------------------------
(* The pairing observer, packet by packet *)

\* the observer's state: mask, pm and the seven rows
Observer(sess) == <<sess.s_pin, sess.s_pin_master, sess.s_pin_data>>

(* C14: an LMP_IN_RAND shown to an armed observer always restarts the        *)
(* transcript, whatever the mask was: afterwards the mask is exactly         *)
(* armed | GOT_IN_RAND, pm is the role of its sender and row 0 holds its     *)
(* body.                                                                     *)
C14_InRandRestarts ==
    [][(s.s_pin # 0 /\ PktOp(last') = LMP_IN_RAND) =>
          /\ s'.s_pin = PIN_ARMED + GOT_IN_RAND
          /\ s'.s_pin_master = PktMaster(last')
          /\ SubSeq(s'.s_pin_data[0], 1, PIN_LONG) = PktBody(last')
          /\ Lines(out') = <<>>]_vars

\* an IN_RAND taken in the middle of a transcript: both AU_RAND rows are in,
\* no SRES has ever been stored
C14_Witness ==
    /\ last # <<>>
    /\ PktOp(last) = LMP_IN_RAND
    /\ s.s_pin = PIN_ARMED + GOT_IN_RAND
    /\ s.s_pin_data[3][1] # 0 /\ s.s_pin_data[4][1] # 0
    /\ s.s_pin_data[5][1] = 0 /\ s.s_pin_data[6][1] = 0
    /\ s.s_pin_data[0][1] # s.s_pin_data[1][1]

PinCalls(f) == SelectSeq(f, LAMBDA e : e.fn = "do_pin")

(* C15: the observer is fed only while it is armed: in a session whose mask  *)
(* is 0 no packet changes the mask, pm or any row, do_pin is not called and  *)
(* no transcript is printed, so the mask stays 0 whatever is received.       *)
C15_UnarmedNeverFed ==
    [][s.s_pin = 0 =>
          /\ Observer(s') = Observer(s)
          /\ PinCalls(fr') = <<>>
          /\ Lines(out') = <<>>]_vars

\* an unarmed session that has decoded MaxPackets packets, the last of them an
\* LMP_IN_RAND
C15_Witness ==
    /\ s.s_pin = 0
    /\ nread = MaxPackets
    /\ PktOp(last) = LMP_IN_RAND
    /\ \E i \in DOMAIN out : out[i].k = "LMP" /\ out[i].op1 = LMP_IN_RAND

Has(mask, bit) == (mask \div bit) % 2 = 1

\* a PDU that comes out of order for the observer sess, or that is no pairing
\* PDU at all
OutOfOrder(sess, pkt) ==
    LET op == PktOp(pkt)
        pm == PktMaster(pkt) = sess.s_pin_master
    IN  \/ op = LMP_COMB_KEY /\ ~Has(sess.s_pin, GOT_IN_RAND)
        \/ op = LMP_AU_RAND /\ ~(Has(sess.s_pin, GOT_COMB1) /\ Has(sess.s_pin, GOT_COMB2))
        \/ op = LMP_SRES /\ ~pm /\ ~Has(sess.s_pin, GOT_AU_RAND1)
        \/ op = LMP_SRES /\ pm /\ ~Has(sess.s_pin, GOT_AU_RAND2)
        \/ op \notin {LMP_IN_RAND, LMP_COMB_KEY, LMP_AU_RAND, LMP_SRES}

(* C16: a PDU that comes out of order (COMB_KEY before IN_RAND, AU_RAND      *)
(* before both COMB_KEYs, SRES of the other side before GOT_AU_RAND1, SRES   *)
(* of pm before GOT_AU_RAND2) or that has any other opcode leaves the mask,  *)
(* pm and the seven rows as they were and prints no transcript.              *)
C16_OutOfOrderIgnored ==
    [][OutOfOrder(s, last') =>
          /\ Observer(s') = Observer(s)
          /\ wr' = <<>>
          /\ Lines(out') = <<>>]_vars

\* an SRES of pm shown to an armed observer that has the AU_RAND of pm but not
\* the other one
C16_Witness ==
    /\ last # <<>>
    /\ PktOp(last) = LMP_SRES
    /\ PktMaster(last) = s.s_pin_master
    /\ s.s_pin = PIN_ARMED + GOT_IN_RAND + GOT_COMB1 + GOT_COMB2 + GOT_AU_RAND1
    /\ PinCalls(fr) # <<>>
    /\ wr = <<>>

----------------------------------------------------------------------------
(* Payload dispatch *)

\* the fragments of fs whose payload process_frontline hands on: those before
\* the first one that is corrupt or filtered, up to a payload the LMP decoder
\* gives up on
RECURSIVE Taken(_)
Taken(fs) ==
    IF fs = <<>> THEN <<>>
    ELSE IF ~Head(fs).fits \/ Filtered(Head(fs)) THEN <<>>
    ELSE IF Rejected(Head(fs)) THEN <<Head(fs)>>
    ELSE <<Head(fs)>> \o Taken(Tail(fs))

Kind(f) ==
    IF f.type = TYPE_DV THEN "DV" ELSE IF f.llid = LLID_LMP THEN "LMP" ELSE "L2CAP"

\* the lines of the three payload decoders, and the payload each one shows
Decoded == SelectSeq(out, LAMBDA e : e.k \in {"DV", "LMP", "L2CAP"})

Shown(e) == IF e.k = "LMP" THEN RawOf(e) ELSE e.data

(* C17: the payload of every non-filtered fragment with plen > 0 goes to     *)
(* exactly one decoder, chosen by the type and LLID of that fragment: the DV *)
(* decoder when the type is TYPE_DV, even with LLID = LLID_LMP, and then it  *)
(* is neither dumped nor shown to do_pin; otherwise the LMP decoder when     *)
(* LLID = LLID_LMP; otherwise the L2CAP decoder.                             *)
C17_OneDecoderPerPayload ==
    LET taken == NonEmpty(Taken(Stream))
        done == SelectSeq(taken, LAMBDA f : ~Rejected(f))
    IN  /\ Calls("process_payload") = Dispatches(Taken(Stream))
        /\ Len(Decoded) = Len(done)
        /\ \A i \in DOMAIN Decoded :
             /\ Decoded[i].k = Kind(done[i])
             /\ Shown(Decoded[i]) = done[i].pay
        /\ \A p \in DOMAIN out :
             out[p].k = "DV" =>
                 /\ out[p - 1].k = "HL"
                 /\ p < Len(out) => out[p + 1].k \notin {"dump", "Go"}
        /\ Len(PinCalls(fr)) <= Len(SelectSeq(done, LAMBDA f : Kind(f) = "LMP"))

\* a DV payload with LLID_LMP, an LMP PDU and L2CAP data in one packet of a
\* session that dumps and is armed
C17_Witness ==
    /\ Len(Decoded) = 3
    /\ {Decoded[i].k : i \in 1..3} = {"DV", "LMP", "L2CAP"}
    /\ \E i \in DOMAIN Stream : Stream[i].type = TYPE_DV /\ Stream[i].llid = LLID_LMP
    /\ s.s_dump # -1
    /\ PinCalls(fr) # <<>>

----------------------------------------------------------------------------
(* Depth of the frontline recursion *)

MinHlen == IF HLEN_BC2 < HLEN_BC4 THEN HLEN_BC2 ELSE HLEN_BC4

\* the length process() hands to process_frontline
FrameLen == PktLen(last) - 1 - SIZEOF_ACL

Steps == Calls("process_frontline")

\* every step but the first was entered after the step before it took its
\* header and payload off the front of what was left
Shrinking ==
    \A i \in DOMAIN Steps \ {1} :
        /\ Steps[i].buf[2] > 0
        /\ Steps[i].buf[2] <= Steps[i - 1].buf[2] - MinHlen
        /\ Steps[i].buf[1] + Steps[i].buf[2] = 1 + SIZEOF_ACL + FrameLen

(* C18 as claimed: decoding a packet takes at most                           *)
(* frame_len / min(HLEN_BC2, HLEN_BC4) steps of the frontline decoder.       *)
C18_StepsBounded ==
    IsAcl => Len(Steps) <= FrameLen \div MinHlen

(* C18 amended: every recursive call of the frontline decoder is made after  *)
(* a step that consumed at least hlen > 0 bytes, so there are at most        *)
(* frame_len / min(HLEN_BC2, HLEN_BC4) recursive calls and one step more     *)
(* than that: the last step may abort or return without consuming anything.  *)
(* Decoding ends in the read loop or in an abort.                            *)
C18_RecursionBounded ==
    IsAcl =>
        /\ Len(Steps) >= 1
        /\ Shrinking
        /\ Len(Steps) - 1 <= FrameLen \div MinHlen
        /\ ~alive => out[Len(out)].k = "abort"

\* a packet of MaxFrags fragments decoded in MaxFrags steps, back in the loop
C18_Witness ==
    /\ IsAcl
    /\ Len(Steps) = MaxFrags
    /\ alive

(* C19: in every state reached from an armed observer (mask = 1) the mask    *)
(* is well-formed: the armed bit is set; GOT_COMB1 or GOT_COMB2 only with    *)
(* GOT_IN_RAND; GOT_AU_RAND1 or GOT_AU_RAND2 only with both GOT_COMB1 and    *)
(* GOT_COMB2; GOT_SRES1 only with GOT_AU_RAND1; GOT_SRES2 only with          *)
(* GOT_AU_RAND2.                                                             *)
C19_MaskWellFormed ==
    LET m == s.s_pin
    IN  /\ Has(m, PIN_ARMED)
        /\ (Has(m, GOT_COMB1) \/ Has(m, GOT_COMB2)) => Has(m, GOT_IN_RAND)
        /\ (Has(m, GOT_AU_RAND1) \/ Has(m, GOT_AU_RAND2))
              => (Has(m, GOT_COMB1) /\ Has(m, GOT_COMB2))
        /\ Has(m, GOT_SRES1) => Has(m, GOT_AU_RAND1)
        /\ Has(m, GOT_SRES2) => Has(m, GOT_AU_RAND2)
        /\ m \in 0..PIN_ALL

\* all but the last bit set, after packets of either role
C19_Witness ==
    /\ s.s_pin = PIN_ALL - GOT_SRES2
    /\ nread >= PIN_ROWS - 1

----------------------------------------------------------------------------
(* Pairing sessions long enough for a transcript after an abandoned one,     *)
(* beside an observer that starts afresh at every LMP_IN_RAND                *)

\* packets read by one such session
MaxFresh == 9

FreshOps == {LMP_IN_RAND, LMP_COMB_KEY, LMP_AU_RAND, LMP_SRES}

FreshPackets ==
    {AclPkt(<<LmpFrag(master, op, body)>>) :
        <<master, op, body>> \in
            UNION {{<<m, o, b>> : m \in {0, 1}, b \in PinBodies(o)} : o \in FreshOps}}

\* an armed observer that has seen nothing
Fresh == PyState(PIN_ARMED, -1, NoIgnore, 0)

\* the second observer forgets all it holds when an LMP_IN_RAND comes, then
\* sees the packet as the session does
SniffFresh ==
    /\ alive
    /\ nread < MaxFresh
    /\ \E pkt \in FreshPackets :
         /\ Recv(pkt)
         /\ \E m \in {process(Ctx(IF PktOp(pkt) = LMP_IN_RAND THEN Fresh ELSE mirror),
                              PktBuf(pkt), PktLen(pkt))} :
              /\ mirror' = m.s
              /\ mout' = m.out
    /\ nread' = nread + 1
    /\ UNCHANGED <<acc, run, rep, sent>>

InitFresh ==
    /\ s = Fresh
    /\ mirror = Fresh
    /\ out = <<>>
    /\ mout = <<>>
    /\ alive = TRUE
    /\ wr = <<>>
    /\ fr = <<>>
    /\ last = <<>>
    /\ acc = {}
    /\ run = <<>>
    /\ rep = NoRep
    /\ sent = <<>>
    /\ nread = 0

NextFresh == SniffFresh

SpecFresh == InitFresh /\ [][NextFresh]_vars

(* C20: every value of a printed transcript is fresh: the line is the one an *)
(* observer prints that held nothing when the LMP_IN_RAND of the transcript  *)
(* came, so each of the seven rows printed was stored at or after that       *)
(* IN_RAND, pm is the one that IN_RAND set, and nothing stored before it is  *)
(* printed; and the step that prints takes up the IN_RAND, so one IN_RAND    *)
(* gives at most one transcript.                                             *)
C20_TranscriptFresh ==
    [][/\ Lines(out') = Lines(mout')
       /\ Lines(out') # <<>> =>
            /\ Len(Lines(out')) = 1
            /\ s'.s_pin_master = s.s_pin_master
            /\ s'.s_pin_master = mirror'.s_pin_master
            /\ Has(s.s_pin, GOT_IN_RAND)
            /\ ~Has(s'.s_pin, GOT_IN_RAND)]_vars

\* a transcript printed at the last packet of MaxFresh, after packets that are
\* no part of it, with bodies that differ from row to row
C20_Witness ==
    /\ Lines(out) # <<>>
    /\ nread = MaxFresh
    /\ Lines(out) = Lines(mout)
    /\ s.s_pin_data[1] # s.s_pin_data[2]
    /\ s.s_pin = PIN_ARMED

====
